---- MODULE Spec2Model ----
(***************************************************************************)
(* AlgoMentor frontend: the analyze page (pages/AnalyzePage.tsx) and the   *)
(* request client (api/analyze.ts, the revision with the 25 s timeout).    *)
(*                                                                         *)
(* JavaScript values are tagged records: a string is [t |-> "string", ...],*)
(* null is [t |-> "null"], undefined is [t |-> "undefined"], an object is  *)
(* its sequence of <<key, value>> pairs in insertion order. A text (the    *)
(* localStorage entry, an HTTP body) is either the serialization of a JSON *)
(* value or a raw text that JSON.parse rejects.                            *)
(***************************************************************************)
EXTENDS Integers, Sequences, FiniteSets, TLC

VARIABLES
    language, mode, problem, constraints, solution,  \* useState: the draft
    loading, result, error,                          \* useState: the exchange's display state
    storage,      \* localStorage[DRAFT_KEY]
    phase,        \* position of the component in its mount sequence
    queued,       \* state updates queued by the load effect, applied by the next render
    loadedRaw,    \* history: the text the load effect of this page load read
    calls,        \* the invocations of analyzeSolution that have not finished, oldest first
    last,         \* history: how the exchange that concluded last ended
    edits,        \* history: user events on the form since the exchange in flight started
    medium,       \* the state of the storage medium: which localStorage calls throw
    uncaught,     \* the exception that has left the component uncaught, null if none
    clipboard,    \* the calls of navigator.clipboard.writeText that have not settled
    copied        \* useState: the "Copied" label of the copy button

draftVars == <<language, mode, problem, constraints, solution>>
pageVars  == <<loading, result, error>>
mountVars == <<phase, queued, loadedRaw>>
mediumVars == <<medium, uncaught>>
copyVars == <<clipboard, copied>>

(***************************************************************************)
(* Program constants                                                       *)
(***************************************************************************)
MIN_SOLUTION_LENGTH == 20
ANALYZE_TIMEOUT_MS == 25000

defaultDraft ==
    [language |-> "java", mode |-> "interview", problem |-> "",
     constraints |-> "", solution |-> <<>>]

(***************************************************************************)
(* JavaScript values                                                       *)
(***************************************************************************)
Undefined  == [t |-> "undefined"]
Null       == [t |-> "null"]
JStr(s)    == [t |-> "string", v |-> s]          \* a string, as a TLA+ string
JChars(cs) == [t |-> "string", chars |-> cs]     \* a string, character by character
JNum(n)    == [t |-> "number", n |-> n]
JArr(xs)   == [t |-> "array", items |-> xs]
JObj(ps)   == [t |-> "object", pairs |-> ps]

IsString(v) == v.t = "string"

\* ToBoolean(v): the test of `if (v)` and of `v || w`
Truthy(v) ==
    CASE v.t = "string" -> IF "v" \in DOMAIN v THEN v.v /= ""
                           ELSE IF "chars" \in DOMAIN v THEN v.chars /= <<>>
                           ELSE TRUE
      [] v.t = "number" -> v.n /= 0
      [] v.t \in {"null", "undefined"} -> FALSE
      [] OTHER -> TRUE

\* o.key for a value o that is not null or undefined
Get(o, key) ==
    IF o.t = "object" /\ \E i \in 1..Len(o.pairs) : o.pairs[i][1] = key
    THEN LET i == CHOOSE j \in 1..Len(o.pairs) : o.pairs[j][1] = key
         IN  o.pairs[i][2]
    ELSE Undefined

(***************************************************************************)
(* Strings as character sequences: String.prototype.trim                   *)
(***************************************************************************)
Rep(c, n) == [i \in 1..n |-> c]

IsSpace(c) == c \in {" ", "\n", "\t"}

RECURSIVE TrimStart(_)
TrimStart(s) ==
    IF s = <<>> THEN s
    ELSE IF IsSpace(Head(s)) THEN TrimStart(Tail(s)) ELSE s

RECURSIVE TrimEnd(_)
TrimEnd(s) ==
    IF s = <<>> THEN s
    ELSE IF IsSpace(s[Len(s)]) THEN TrimEnd(SubSeq(s, 1, Len(s) - 1)) ELSE s

trim(s) == TrimEnd(TrimStart(s))

(***************************************************************************)
(* JSON.stringify / JSON.parse                                             *)
(***************************************************************************)
NoEntry == [text |-> "none"]                    \* getItem returns null
RawText(s) == [text |-> "raw", raw |-> s]       \* a text that is not JSON
JsonText(v) == [text |-> "json", value |-> v]   \* the serialization of v

DropUndefined(ps) == SelectSeq(ps, LAMBDA p : p[2] /= Undefined)

\* JSON.stringify: properties whose value is undefined are left out
JSONstringify(v) ==
    JsonText(IF v.t = "object" THEN JObj(DropUndefined(v.pairs)) ELSE v)

ParseThrows(text) == text.text /= "json"
JSONparse(text) == text.value

(***************************************************************************)
(* The draft                                                               *)
(***************************************************************************)
DraftObject(l, m, p, c, s) ==
    JObj(<< <<"language", JStr(l)>>, <<"mode", JStr(m)>>, <<"problem", JStr(p)>>,
            <<"constraints", JStr(c)>>, <<"solution", JChars(s)>> >>)

trimmedSolutionLength == Len(trim(solution))

\* variants of the gate: one that forgets the exchange in flight, one that measures the
\* untrimmed text, one that only asks for a non-blank solution
canAnalyze_IgnoresLoading == trimmedSolutionLength >= MIN_SOLUTION_LENGTH

canAnalyze_Untrimmed == ~loading /\ Len(solution) >= MIN_SOLUTION_LENGTH

canAnalyze_NonBlank == ~loading /\ trimmedSolutionLength /= 0

canAnalyze == ~loading /\ trimmedSolutionLength >= MIN_SOLUTION_LENGTH

\* `${n}` in a template literal: the decimal digits of a natural number
Digit(d) == <<"0", "1", "2", "3", "4", "5", "6", "7", "8", "9">>[d + 1]

RECURSIVE ToDecimal(_)
ToDecimal(n) == IF n < 10 THEN <<Digit(n)>> ELSE ToDecimal(n \div 10) \o <<Digit(n % 10)>>

\* a string built by a template literal, piece by piece
JParts(ps) == [t |-> "string", parts |-> ps]

\* variant: the characters still needed are counted on the untrimmed text
validationMessage_Untrimmed ==
    IF trimmedSolutionLength = 0
    THEN JStr("Paste your solution to start analysis.")
    ELSE IF trimmedSolutionLength < MIN_SOLUTION_LENGTH
    THEN JParts(<<"Add at least ",
                  ToDecimal(IF Len(solution) < MIN_SOLUTION_LENGTH
                            THEN MIN_SOLUTION_LENGTH - Len(solution) ELSE 0),
                  " more characters for meaningful feedback.">>)
    ELSE Null

validationMessage ==
    IF trimmedSolutionLength = 0
    THEN JStr("Paste your solution to start analysis.")
    ELSE IF trimmedSolutionLength < MIN_SOLUTION_LENGTH
    THEN JParts(<<"Add at least ",
                  ToDecimal(MIN_SOLUTION_LENGTH - trimmedSolutionLength),
                  " more characters for meaningful feedback.">>)
    ELSE Null

(***************************************************************************)
(* Inputs                                                                  *)
(***************************************************************************)
ExtraChars == 5
PadChars == 3
MaxCalls == 2          \* invocations of analyzeSolution the model keeps track of at once
TickMs == 25000        \* granularity of time
MaxElapsed == 2 * ANALYZE_TIMEOUT_MS
MaxEditsInFlight == 1  \* form events the model follows while an exchange is in flight
MaxPendingCopies == 1  \* calls of clipboard.writeText the model follows at once

Languages == {"java", "python"}
Modes == {"interview", "deep"}
ProblemInputs == {"", "Two Sum"}
ConstraintInputs == {"", "n up to 1e5, exactly one solution"}

ExampleSolution ==
    <<"c", "l", "a", "s", "s", " ", "S", "o", "l", "u", "t", "i", "o", "n", " ",
      "{", "\n", " ", " ", "p", "u", "b", "l", "i", "c", " ", "i", "n", "t", "[",
      "]", " ", "t", "w", "o", "S", "u", "m">>

SolutionInputs ==
    { <<>>,
      Rep("x", MIN_SOLUTION_LENGTH + ExtraChars),
      Rep(" ", PadChars) \o Rep("x", MIN_SOLUTION_LENGTH - 1) \o Rep("\n", PadChars),
      Rep(" ", PadChars) \o Rep("x", MIN_SOLUTION_LENGTH) \o Rep("\n", PadChars) }

\* what the storage entry can hold when the page is first opened
InitialStorage ==
    { NoEntry,
      RawText(""),
      RawText("{not json"),
      JsonText(Null),
      JsonText(JNum(42)),
      JsonText(JArr(<<>>)),
      JsonText(JObj(<< <<"mode", JStr("expert")>> >>)),
      JsonText(JObj(<< <<"language", JStr("python")>>,
                       <<"solution", JChars(Rep("x", MIN_SOLUTION_LENGTH + ExtraChars))>> >>)) }

(***************************************************************************)
(* api/analyze.ts: the request client                                      *)
(***************************************************************************)
TIMEOUT_MESSAGE == "Request timed out. Please try again."

\* variant: precedence by truthiness, `data?.message || data?.error || 'Request failed'`
getErrorMessage_Truthy(data) ==
    IF IsString(data) THEN data
    ELSE LET maybeMessage == Get(data, "message")
             maybeError   == Get(data, "error")
         IN  IF Truthy(maybeMessage) THEN maybeMessage
             ELSE IF Truthy(maybeError) THEN maybeError
             ELSE JStr("Request failed")

\* variant: an empty text falls back to the literal, `data || 'Request failed'`
getErrorMessage_EmptyFallback(data) ==
    IF IsString(data) THEN (IF Truthy(data) THEN data ELSE JStr("Request failed"))
    ELSE IF data.t \in {"object", "array"}
    THEN LET maybeMessage == Get(data, "message")
             maybeError   == Get(data, "error")
         IN  IF IsString(maybeMessage) THEN maybeMessage
             ELSE IF IsString(maybeError) THEN maybeError
             ELSE JStr("Request failed")
    ELSE JStr("Request failed")

getErrorMessage(data) ==
    IF IsString(data) THEN data
    ELSE IF data.t \in {"object", "array"}       \* typeof data === 'object' && data !== null
    THEN LET maybeMessage == Get(data, "message")
             maybeError   == Get(data, "error")
         IN  IF IsString(maybeMessage) THEN maybeMessage
             ELSE IF IsString(maybeError) THEN maybeError
             ELSE JStr("Request failed")
    ELSE JStr("Request failed")

\* variant: the optional fields are passed as they are in the draft
Payload_SendsEmpty(l, m, p, c, s) ==
    JObj(<< <<"language", JStr(l)>>, <<"mode", JStr(m)>>, <<"problem", JStr(p)>>,
            <<"constraints", JStr(c)>>, <<"solution", JChars(s)>> >>)

\* variant: the solution is sent trimmed
Payload_Trimmed(l, m, p, c, s) ==
    JObj(<< <<"language", JStr(l)>>,
            <<"mode", JStr(m)>>,
            <<"problem", IF Truthy(JStr(p)) THEN JStr(p) ELSE Undefined>>,
            <<"constraints", IF Truthy(JStr(c)) THEN JStr(c) ELSE Undefined>>,
            <<"solution", JChars(trim(s))>> >>)

\* the argument onAnalyze passes: `problem || undefined`, `constraints || undefined`
Payload(l, m, p, c, s) ==
    JObj(<< <<"language", JStr(l)>>,
            <<"mode", JStr(m)>>,
            <<"problem", IF Truthy(JStr(p)) THEN JStr(p) ELSE Undefined>>,
            <<"constraints", IF Truthy(JStr(c)) THEN JStr(c) ELSE Undefined>>,
            <<"solution", JChars(s)>> >>)

NoResponse == [status |-> 0, contentType |-> Null]

\* variant: no timer is armed
NewCall_NoTimer(payload) ==
    [pc |-> "fetching", request |-> JSONstringify(payload), res |-> NoResponse,
     timer |-> FALSE, elapsed |-> 0, posts |-> 1]

\* variant: one timer for the module, armed by the first invocation only
NewCall_SharedTimer(payload) ==
    [pc |-> "fetching", request |-> JSONstringify(payload), res |-> NoResponse,
     timer |-> (last.by = "none"), elapsed |-> 0, posts |-> 1]

\* new AbortController, setTimeout(..., ANALYZE_TIMEOUT_MS), fetch(..., body: JSON.stringify(payload));
\* posts counts the calls of fetch the invocation has made
NewCall(payload) ==
    [pc |-> "fetching", request |-> JSONstringify(payload), res |-> NoResponse,
     timer |-> TRUE, elapsed |-> 0, posts |-> 1]

\* variant: the timer is left armed
Finally_NoClear(call) == [call EXCEPT !.pc = "done"]

\* finally { clearTimeout(timeoutId) }
Finally(call) == [call EXCEPT !.pc = "done", !.timer = FALSE]

\* what a service can declare: nothing, text, JSON with and without a parameter, JSON
\* in other letter case, a JSON-based type (RFC 7807), text with a parameter
ContentTypes ==
    {Null, JStr("text/plain"), JStr("application/json"),
     JStr("application/json; charset=utf-8"), JStr("Application/JSON"),
     JStr("application/problem+json"), JStr("text/plain; note=application/json")}

\* the characters of the header values and of the search string the model uses
Chars(s) ==
    CASE s = "" ->
             <<>>
      [] s = "application/json" ->
             <<"a", "p", "p", "l", "i", "c", "a", "t", "i", "o", "n", "/", "j", "s", "o", "n">>
      [] s = "text/plain" ->
             <<"t", "e", "x", "t", "/", "p", "l", "a", "i", "n">>
      [] s = "application/json; charset=utf-8" ->
             <<"a", "p", "p", "l", "i", "c", "a", "t", "i", "o", "n", "/", "j", "s", "o", "n",
             ";", " ", "c", "h", "a", "r", "s", "e", "t", "=", "u", "t", "f", "-",
             "8">>
      [] s = "Application/JSON" ->
             <<"A", "p", "p", "l", "i", "c", "a", "t", "i", "o", "n", "/", "J", "S", "O", "N">>
      [] s = "application/problem+json" ->
             <<"a", "p", "p", "l", "i", "c", "a", "t", "i", "o", "n", "/", "p", "r", "o", "b",
             "l", "e", "m", "+", "j", "s", "o", "n">>
      [] s = "text/plain; note=application/json" ->
             <<"t", "e", "x", "t", "/", "p", "l", "a", "i", "n", ";", " ", "n", "o", "t", "e",
             "=", "a", "p", "p", "l", "i", "c", "a", "t", "i", "o", "n", "/", "j",
             "s", "o", "n">>

\* String.prototype.includes: searchString occurs in text at some position
includes(text, searchString) ==
    \E k \in 0..(Len(text) - Len(searchString)) :
        SubSeq(text, k + 1, k + Len(searchString)) = searchString

\* (res.headers.get('content-type') || '').includes('application/json')
IncludesApplicationJson(contentType) ==
    includes(Chars(IF Truthy(contentType) THEN contentType.v ELSE ""),
             Chars("application/json"))

Ok(status) == status >= 200 /\ status <= 299

\* res.text(): the body as a string
TextString(body) ==
    IF body.text = "raw" THEN JStr(body.raw) ELSE [t |-> "string", text |-> body]

Return(v) == [kind |-> "return", value |-> v]
Throw(m)  == [kind |-> "throw", message |-> m]

\* variant: the body is always read as text
Settle_AlwaysText(res, body) ==
    IF ~Ok(res.status) THEN Throw(getErrorMessage(TextString(body)))
    ELSE Return(TextString(body))

\* lines 29-38 once the body has been received: what analyzeSolution returns or throws
Settle(res, body) ==
    IF IncludesApplicationJson(res.contentType) /\ ParseThrows(body)
    THEN Throw(JStr("Unexpected token in JSON"))        \* res.json() rejects
    ELSE LET data == IF IncludesApplicationJson(res.contentType)
                     THEN JSONparse(body) ELSE TextString(body)
         IN  IF ~Ok(res.status) THEN Throw(getErrorMessage(data)) ELSE Return(data)

\* variant: anything but an AbortError becomes a generic failure
Caught_Generic(name, message) ==
    IF name = "AbortError" THEN Throw(JStr(TIMEOUT_MESSAGE)) ELSE Throw(JStr("Request failed"))

\* variant: every rejection is reported as a timeout
Caught_AlwaysTimeout(name, message) == Throw(JStr(TIMEOUT_MESSAGE))

\* catch (error): an AbortError becomes the timeout failure, anything else is rethrown
Caught(name, message) ==
    IF name = "AbortError" THEN Throw(JStr(TIMEOUT_MESSAGE)) ELSE Throw(message)

(***************************************************************************)
(* Responses of the service                                                *)
(***************************************************************************)
Statuses == {200, 500}

MessageValues == {Undefined, JStr(""), JStr("quota exceeded"), JNum(42)}
ErrorValues   == {Undefined, JStr(""), JStr("bad input"), Null}

ErrorObjects ==
    { JObj(DropUndefined(<< <<"message", m>>, <<"error", e>> >>)) :
        m \in MessageValues, e \in ErrorValues }

AnalyzeResult(first, second) ==
    JObj(<< <<"summary", JArr(<<JStr(first), JStr(second)>>)>>,
            <<"correctness", JObj(<< <<"intuition", JStr("hash map")>>,
                                     <<"invariants", JArr(<<JStr(second), JStr(first)>>)>>,
                                     <<"proofSketch", JStr("induction")>> >>)>>,
            <<"complexity", JObj(<< <<"time", JStr("O(n)")>>, <<"space", JStr("O(n)")>>,
                                    <<"explanation", JStr("one pass")>> >>)>>,
            <<"edgeCases", JArr(<<JObj(<< <<"case", JStr(first)>>, <<"why", JStr(second)>> >>)>>)>>,
            <<"pitfalls", JArr(<<JStr(first)>>)>>,
            <<"tests", JArr(<<JObj(<< <<"input", JStr(first)>>, <<"expected", JStr(second)>>,
                                      <<"purpose", JStr("basic")>> >>)>>)>>,
            <<"improvements", JArr(<<>>)>> >>)

Results == {AnalyzeResult("a", "b"), AnalyzeResult("b", "a")}

Bodies ==
    {RawText(""), RawText("internal error")}
    \cup {JsonText(o) : o \in ErrorObjects}
    \cup {JsonText(r) : r \in Results}
    \cup {JsonText(JStr("down")), JsonText(JArr(<<>>)), JsonText(Null)}

\* the responses the page is exercised with: JSON responses, well-formed or not; the
\* client on its own is exercised with every content type
PageContentTypes == {JStr("application/json; charset=utf-8")}

PageBodies ==
    {RawText("internal error"), JsonText(JObj(<< <<"error", JStr("bad input")>> >>))}
    \cup {JsonText(r) : r \in Results}

(***************************************************************************)
(* The storage medium: "ok", "quota" (setItem throws QuotaExceededError)   *)
(* or "unavailable" (every access to localStorage throws SecurityError)    *)
(***************************************************************************)
getItemThrows == medium = "unavailable"
setItemThrows == medium \in {"quota", "unavailable"}
removeItemThrows == medium = "unavailable"

StorageError ==
    IF medium = "quota" THEN JStr("QuotaExceededError") ELSE JStr("SecurityError")

(***************************************************************************)
(* Mount: first render with the defaults, then the effects in order. An    *)
(* exception thrown by an effect is not caught by the component: the other *)
(* effects of the commit still run, then React discards the component      *)
(* (phase "crashed").                                                      *)
(***************************************************************************)
NoUpdates ==
    [language |-> Undefined, mode |-> Undefined, problem |-> Undefined,
     constraints |-> Undefined, solution |-> Undefined]

NoLast == [by |-> "none"]

Init ==
    /\ language = defaultDraft.language
    /\ mode = defaultDraft.mode
    /\ problem = defaultDraft.problem
    /\ constraints = defaultDraft.constraints
    /\ solution = defaultDraft.solution
    /\ loading = FALSE
    /\ result = Null
    /\ error = Null
    /\ storage \in InitialStorage
    /\ phase = "load"
    /\ queued = NoUpdates
    /\ loadedRaw = NoEntry
    /\ calls = <<>>
    /\ last = NoLast
    /\ edits = 0
    /\ medium = "ok"
    /\ uncaught = Null
    /\ clipboard = 0
    /\ copied = FALSE

\* variant: the solution is not restored
UpdateFrom_SkipsSolution(draft, f) ==
    IF f /= "solution" /\ Truthy(Get(draft, f)) THEN Get(draft, f) ELSE Undefined

\* `if (draft.f) setF(draft.f)`
UpdateFrom(draft, f) == IF Truthy(Get(draft, f)) THEN Get(draft, f) ELSE Undefined

\* useEffect(() => { getItem ... }, [])
LoadEffect ==
    /\ phase = "load"
    /\ phase' = "save"
    /\ IF getItemThrows
       THEN \* localStorage.getItem is outside the try block
            /\ uncaught' = StorageError
            /\ loadedRaw' = NoEntry
            /\ queued' = NoUpdates
            /\ UNCHANGED storage
       ELSE /\ UNCHANGED uncaught
            /\ loadedRaw' = storage
            /\ IF storage.text = "none" \/ (storage.text = "raw" /\ storage.raw = "")
               THEN \* if (!raw) return
                    /\ queued' = NoUpdates
                    /\ UNCHANGED storage
               ELSE IF ParseThrows(storage) \/ JSONparse(storage) = Null
               THEN \* JSON.parse throws, or draft.language on null throws: catch
                    /\ queued' = NoUpdates
                    /\ storage' = NoEntry
               ELSE LET draft == JSONparse(storage)
                    IN  /\ queued' = [f \in DOMAIN NoUpdates |-> UpdateFrom(draft, f)]
                        /\ UNCHANGED storage
    /\ UNCHANGED <<draftVars, pageVars, calls, last, edits, medium, copyVars>>

\* useEffect(() => { setItem ... }, [language, mode, problem, constraints, solution])
SaveEffect ==
    /\ phase \in {"save", "resave"}
    /\ IF setItemThrows
       THEN uncaught' = StorageError /\ UNCHANGED storage
       ELSE /\ storage' = JSONstringify(DraftObject(language, mode, problem, constraints, solution))
            /\ UNCHANGED uncaught
    /\ phase' = IF uncaught' /= Null THEN "crashed"
                ELSE IF phase = "save" /\ queued /= NoUpdates THEN "rerender" ELSE "ready"
    /\ UNCHANGED <<draftVars, pageVars, queued, loadedRaw, calls, last, edits, medium, copyVars>>

\* the render that applies the updates queued by the load effect
Rerender ==
    /\ phase = "rerender"
    /\ language' = IF queued.language = Undefined THEN language ELSE queued.language.v
    /\ mode' = IF queued.mode = Undefined THEN mode ELSE queued.mode.v
    /\ problem' = IF queued.problem = Undefined THEN problem ELSE queued.problem.v
    /\ constraints' = IF queued.constraints = Undefined THEN constraints ELSE queued.constraints.v
    /\ solution' = IF queued.solution = Undefined THEN solution ELSE queued.solution.chars
    /\ queued' = NoUpdates
    /\ phase' = IF draftVars' /= draftVars THEN "resave" ELSE "ready"
    /\ UNCHANGED <<pageVars, storage, loadedRaw, calls, last, edits, mediumVars, copyVars>>

(***************************************************************************)
(* Event handlers; each includes the render and the effects it causes      *)
(***************************************************************************)
\* variant: the save effect does not run after the render
AfterRender_NoSave(handlerStorage, handlerError) ==
    /\ storage' = handlerStorage
    /\ uncaught' = handlerError
    /\ UNCHANGED <<phase, calls>>

\* the render after a handler that left the entry as handlerStorage and the uncaught
\* exception as handlerError: the save effect runs if one of its dependencies changed.
\* The callbacks of an exchange have no effect on a discarded component; they are not
\* followed.
AfterRender(handlerStorage, handlerError) ==
    IF draftVars' = draftVars
    THEN /\ storage' = handlerStorage
         /\ uncaught' = handlerError
         /\ UNCHANGED <<phase, calls>>
    ELSE IF setItemThrows
    THEN /\ storage' = handlerStorage
         /\ uncaught' = StorageError
         /\ phase' = "crashed"
         /\ calls' = <<>>
    ELSE /\ storage' = JSONstringify(DraftObject(language', mode', problem', constraints', solution'))
         /\ uncaught' = handlerError
         /\ UNCHANGED <<phase, calls>>

\* a user event on the mounted page
UserEvent ==
    /\ phase = "ready"
    /\ loadedRaw' = NoEntry
    /\ UNCHANGED <<queued, medium, copyVars>>

\* a user event on the form (a field, Load example, Clear)
FormEvent ==
    /\ UserEvent
    /\ calls /= <<>> => edits < MaxEditsInFlight
    /\ edits' = IF calls /= <<>> THEN edits + 1 ELSE 0
    /\ UNCHANGED last

\* the controls' onChange handlers; a change event reports a value that differs from the
\* one the control shows
setLanguage(v) ==
    /\ FormEvent
    /\ v /= language
    /\ language' = v
    /\ UNCHANGED <<mode, problem, constraints, solution, pageVars>>
    /\ AfterRender(storage, uncaught)

setMode(v) ==
    /\ FormEvent
    /\ v /= mode
    /\ mode' = v
    /\ UNCHANGED <<language, problem, constraints, solution, pageVars>>
    /\ AfterRender(storage, uncaught)

setProblem(v) ==
    /\ FormEvent
    /\ v /= problem
    /\ problem' = v
    /\ UNCHANGED <<language, mode, constraints, solution, pageVars>>
    /\ AfterRender(storage, uncaught)

setConstraints(v) ==
    /\ FormEvent
    /\ v /= constraints
    /\ constraints' = v
    /\ UNCHANGED <<language, mode, problem, solution, pageVars>>
    /\ AfterRender(storage, uncaught)

\* variant: editing the solution dismisses the error of the last exchange
setSolution_ClearsError(v) ==
    /\ FormEvent
    /\ v /= solution
    /\ solution' = v
    /\ error' = Null
    /\ UNCHANGED <<language, mode, problem, constraints, loading, result>>
    /\ AfterRender(storage, uncaught)

setSolution(v) ==
    /\ FormEvent
    /\ v /= solution
    /\ solution' = v
    /\ UNCHANGED <<language, mode, problem, constraints, pageVars>>
    /\ AfterRender(storage, uncaught)

fillExample ==
    /\ FormEvent
    /\ language' = "java"
    /\ mode' = "interview"
    /\ problem' = "Two Sum"
    /\ constraints' = "n up to 1e5, exactly one solution"
    /\ solution' = ExampleSolution
    /\ error' = Null
    /\ result' = Null
    /\ UNCHANGED <<loading>>
    /\ AfterRender(storage, uncaught)

clearAll ==
    /\ FormEvent
    /\ language' = defaultDraft.language
    /\ mode' = defaultDraft.mode
    /\ problem' = defaultDraft.problem
    /\ constraints' = defaultDraft.constraints
    /\ solution' = defaultDraft.solution
    /\ result' = Null
    /\ error' = Null
    /\ UNCHANGED <<loading>>
    /\ IF removeItemThrows      \* localStorage.removeItem(DRAFT_KEY), then the render
       THEN AfterRender(storage, StorageError)
       ELSE AfterRender(NoEntry, uncaught)

\* onAnalyze up to its await; both triggers (the button, disabled unless canAnalyze,
\* and Ctrl/Cmd+Enter, which tests canAnalyze) run it
onAnalyze(trigger) ==
    /\ UserEvent
    /\ canAnalyze                                   \* if (!canAnalyze) return
    /\ Len(calls) < MaxCalls
    /\ loading' = TRUE
    /\ error' = Null
    /\ result' = Null
    /\ calls' = Append(calls, NewCall(Payload(language, mode, problem, constraints, solution)))
    /\ last' = NoLast
    /\ edits' = 0
    /\ UNCHANGED <<draftVars, storage, phase, uncaught>>

COPY_ERROR == "Could not copy to clipboard on this browser."

\* copyResultJson up to its await; the button is rendered with the result
copyResultJson ==
    /\ phase = "ready"
    /\ Truthy(result)                              \* if (!result) return
    /\ clipboard < MaxPendingCopies
    /\ clipboard' = clipboard + 1
    /\ loadedRaw' = NoEntry
    /\ UNCHANGED <<draftVars, pageVars, storage, phase, queued, calls, last, edits,
                   mediumVars, copied>>

\* writeText resolves: setCopied(true)
ClipboardResolves ==
    /\ phase = "ready"
    /\ clipboard > 0
    /\ clipboard' = clipboard - 1
    /\ copied' = TRUE
    /\ UNCHANGED <<draftVars, pageVars, storage, mountVars, calls, last, edits, mediumVars>>

\* writeText rejects: catch { setError(...) }
ClipboardRejects ==
    /\ phase = "ready"
    /\ clipboard > 0
    /\ clipboard' = clipboard - 1
    /\ error' = JStr(COPY_ERROR)
    /\ UNCHANGED <<draftVars, loading, result, storage, mountVars, calls, last, edits,
                   mediumVars, copied>>

\* the timer of the `copied` effect, 1200 ms after the label appeared: setCopied(false)
CopiedTimeout ==
    /\ phase = "ready"
    /\ copied
    /\ copied' = FALSE
    /\ UNCHANGED <<draftVars, pageVars, storage, mountVars, calls, last, edits, mediumVars,
                   clipboard>>

\* the user reloads the page: the component and its pending work are gone, the storage stays
Reload ==
    /\ phase \in {"ready", "crashed"}
    /\ language' = defaultDraft.language
    /\ mode' = defaultDraft.mode
    /\ problem' = defaultDraft.problem
    /\ constraints' = defaultDraft.constraints
    /\ solution' = defaultDraft.solution
    /\ loading' = FALSE
    /\ result' = Null
    /\ error' = Null
    /\ phase' = "load"
    /\ queued' = NoUpdates
    /\ loadedRaw' = NoEntry
    /\ calls' = <<>>
    /\ last' = NoLast
    /\ edits' = 0
    /\ uncaught' = Null
    /\ clipboard' = 0
    /\ copied' = FALSE
    /\ UNCHANGED <<storage, medium>>

(***************************************************************************)
(* The exchange: network and timer callbacks, with onAnalyze's continuation*)
(***************************************************************************)
InFlight(call) == call.pc \in {"fetching", "reading"}

\* a call leaves the list when it has finished and its timer is no longer armed
Pending(cs) == SelectSeq(cs, LAMBDA call : InFlight(call) \/ call.timer)

\* variant: loading is reset after a success only
Deliver_NoFinally(out) ==
    /\ IF out.kind = "return"
       THEN result' = out.value /\ UNCHANGED error
       ELSE error' = out.message /\ UNCHANGED result
    /\ loading' = (out.kind /= "return")

\* onAnalyze after the await: setResult / setError, finally setLoading(false)
Deliver(out) ==
    /\ IF out.kind = "return"
       THEN result' = out.value /\ UNCHANGED error
       ELSE error' = out.message /\ UNCHANGED result
    /\ loading' = FALSE

\* call i of cs finishes with outcome out: the finally block, then onAnalyze's continuation
Conclude(cs, i, by, body, out) ==
    /\ calls' = Pending([cs EXCEPT ![i] = Finally(cs[i])])
    /\ last' = [by |-> by, res |-> cs[i].res, body |-> body, out |-> out,
                posts |-> cs[i].posts]
    /\ Deliver(out)
    /\ edits' = IF calls' = <<>> THEN 0 ELSE edits
    /\ UNCHANGED <<draftVars, storage, mountVars, mediumVars, copyVars>>

\* fetch resolves: status line and headers are in
HeadersArrive(i, status, contentType) ==
    /\ calls[i].pc = "fetching"
    /\ calls' = [calls EXCEPT ![i].pc = "reading",
                              ![i].res = [status |-> status, contentType |-> contentType]]
    /\ UNCHANGED <<draftVars, pageVars, storage, mountVars, last, edits, mediumVars, copyVars>>

\* res.json() / res.text() settles
BodyArrive(i, body) ==
    /\ calls[i].pc = "reading"
    /\ Conclude(calls, i, "response", body, Settle(calls[i].res, body))

\* the messages of the TypeError a browser rejects fetch with
NetworkMessages == {"Failed to fetch", "Load failed"}

\* variant: a rejected fetch is tried once more
NetworkError_Retry(i, message) ==
    /\ InFlight(calls[i])
    /\ IF calls[i].posts < 2
       THEN /\ calls' = [calls EXCEPT ![i].pc = "fetching", ![i].res = NoResponse,
                                      ![i].posts = @ + 1]
            /\ UNCHANGED <<draftVars, pageVars, storage, mountVars, last, edits, mediumVars, copyVars>>
       ELSE Conclude(calls, i, "network", NoEntry, Caught("TypeError", JStr(message)))

\* fetch, or the reading of the body, rejects with a TypeError
NetworkError(i, message) ==
    /\ InFlight(calls[i])
    /\ Conclude(calls, i, "network", NoEntry, Caught("TypeError", JStr(message)))

\* variant: the abort only reaches a fetch whose headers have not arrived
TimerFire_HeadersWin(i) ==
    /\ calls[i].timer
    /\ calls[i].elapsed >= ANALYZE_TIMEOUT_MS
    /\ IF calls[i].pc = "fetching"
       THEN Conclude([calls EXCEPT ![i].timer = FALSE], i, "timer", NoEntry,
                     Caught("AbortError", JStr("signal is aborted")))
       ELSE /\ calls' = Pending([calls EXCEPT ![i].timer = FALSE])
            /\ UNCHANGED <<draftVars, pageVars, storage, mountVars, last, edits, mediumVars, copyVars>>

\* the setTimeout callback: controller.abort(); the pending fetch or body read, if
\* any, rejects with an AbortError
TimerFire(i) ==
    /\ calls[i].timer
    /\ calls[i].elapsed >= ANALYZE_TIMEOUT_MS
    /\ IF InFlight(calls[i])
       THEN Conclude([calls EXCEPT ![i].timer = FALSE], i, "timer", NoEntry,
                     Caught("AbortError", JStr("signal is aborted")))
       ELSE /\ calls' = Pending([calls EXCEPT ![i].timer = FALSE])
            /\ UNCHANGED <<draftVars, pageVars, storage, mountVars, last, edits, mediumVars, copyVars>>

Min(a, b) == IF a < b THEN a ELSE b

Due(call) == call.timer /\ call.elapsed >= ANALYZE_TIMEOUT_MS

\* TickMs of time pass; an armed timer fires when it is due, so time stops at its deadline
Tick ==
    /\ calls /= <<>>
    /\ \A i \in 1..Len(calls) : ~Due(calls[i]) /\ calls[i].elapsed < MaxElapsed
    /\ calls' = [i \in 1..Len(calls) |->
                   [calls[i] EXCEPT !.elapsed =
                       Min(@ + TickMs, IF calls[i].timer THEN ANALYZE_TIMEOUT_MS ELSE MaxElapsed)]]
    /\ UNCHANGED <<draftVars, pageVars, storage, mountVars, last, edits, mediumVars, copyVars>>

vars == <<language, mode, problem, constraints, solution, loading, result, error,
          storage, phase, queued, loadedRaw, calls, last, edits, medium, uncaught,
          clipboard, copied>>

Next ==
    \/ LoadEffect
    \/ SaveEffect
    \/ Rerender
    \/ \E v \in Languages : setLanguage(v)
    \/ \E v \in Modes : setMode(v)
    \/ \E v \in ProblemInputs : setProblem(v)
    \/ \E v \in ConstraintInputs : setConstraints(v)
    \/ \E v \in SolutionInputs : setSolution(v)
    \/ fillExample
    \/ clearAll
    \/ \E trigger \in {"click", "keydown"} : onAnalyze(trigger)
    \/ copyResultJson
    \/ ClipboardResolves
    \/ ClipboardRejects
    \/ CopiedTimeout
    \/ Reload
    \/ \E i \in 1..Len(calls), status \in Statuses, contentType \in PageContentTypes :
          HeadersArrive(i, status, contentType)
    \/ \E i \in 1..Len(calls), body \in PageBodies : BodyArrive(i, body)
    \/ \E i \in 1..Len(calls), message \in NetworkMessages : NetworkError(i, message)
    \/ \E i \in 1..Len(calls) : TimerFire(i)
    \/ Tick

Spec == Init /\ [][Next]_vars

(***************************************************************************)
(* The request client on its own: a page that holds a submittable draft    *)
(* and is only used to submit it, against every response of the service    *)
(***************************************************************************)
ClientDrafts ==
    { [language |-> l, mode |-> "deep", problem |-> p, constraints |-> "", solution |-> s] :
        l \in Languages, p \in ProblemInputs,
        s \in {Rep("x", MIN_SOLUTION_LENGTH + ExtraChars)} }

ClientInit ==
    /\ \E d \in ClientDrafts :
          /\ language = d.language
          /\ mode = d.mode
          /\ problem = d.problem
          /\ constraints = d.constraints
          /\ solution = d.solution
          /\ storage = JSONstringify(DraftObject(d.language, d.mode, d.problem,
                                                 d.constraints, d.solution))
    /\ loading = FALSE
    /\ result = Null
    /\ error = Null
    /\ phase = "ready"
    /\ queued = NoUpdates
    /\ loadedRaw = NoEntry
    /\ calls = <<>>
    /\ last = NoLast
    /\ edits = 0
    /\ medium = "ok"
    /\ uncaught = Null
    /\ clipboard = 0
    /\ copied = FALSE

ClientNext ==
    \/ \E trigger \in {"click", "keydown"} : onAnalyze(trigger)
    \/ \E i \in 1..Len(calls), status \in Statuses, contentType \in ContentTypes :
          HeadersArrive(i, status, contentType)
    \/ \E i \in 1..Len(calls), body \in Bodies : BodyArrive(i, body)
    \/ \E i \in 1..Len(calls), message \in NetworkMessages : NetworkError(i, message)
    \/ \E i \in 1..Len(calls) : TimerFire(i)
    \/ Tick

ClientSpec == ClientInit /\ [][ClientNext]_vars

(***************************************************************************)
(* The draft of the page on a storage medium that can fail                 *)
(***************************************************************************)
Mediums == {"ok", "quota", "unavailable"}

\* the medium fills up, is blocked, or works again
MediumChanges(m) ==
    /\ phase = "ready"
    /\ m /= medium
    /\ medium' = m
    /\ UNCHANGED <<draftVars, pageVars, storage, mountVars, calls, last, edits, uncaught, copyVars>>

StorageInit ==
    /\ language = defaultDraft.language
    /\ mode = defaultDraft.mode
    /\ problem = defaultDraft.problem
    /\ constraints = defaultDraft.constraints
    /\ solution = defaultDraft.solution
    /\ loading = FALSE
    /\ result = Null
    /\ error = Null
    /\ storage \in InitialStorage
    /\ phase = "load"
    /\ queued = NoUpdates
    /\ loadedRaw = NoEntry
    /\ calls = <<>>
    /\ last = NoLast
    /\ edits = 0
    /\ medium \in Mediums
    /\ uncaught = Null
    /\ clipboard = 0
    /\ copied = FALSE

\* the draft and its persistence; no exchange is started
StorageNext ==
    \/ LoadEffect
    \/ SaveEffect
    \/ Rerender
    \/ \E v \in Languages : setLanguage(v)
    \/ \E v \in Modes : setMode(v)
    \/ \E v \in ProblemInputs : setProblem(v)
    \/ \E v \in ConstraintInputs : setConstraints(v)
    \/ \E v \in SolutionInputs : setSolution(v)
    \/ fillExample
    \/ clearAll
    \/ Reload
    \/ \E m \in Mediums : MediumChanges(m)

StorageSpec == StorageInit /\ [][StorageNext]_vars

(***************************************************************************)
(* The validation of the solution: a mounted page whose solution field     *)
(* takes texts of every length around the threshold                        *)
(***************************************************************************)
ValidationInputs ==
    { Rep(" ", pad) \o Rep("x", n) \o Rep("\n", pad) :
        n \in 0..(MIN_SOLUTION_LENGTH + ExtraChars), pad \in {0, PadChars} }

ValidationInit ==
    /\ language = defaultDraft.language
    /\ mode = defaultDraft.mode
    /\ problem = defaultDraft.problem
    /\ constraints = defaultDraft.constraints
    /\ solution \in ValidationInputs
    /\ storage = JSONstringify(DraftObject(language, mode, problem, constraints, solution))
    /\ loading = FALSE
    /\ result = Null
    /\ error = Null
    /\ phase = "ready"
    /\ queued = NoUpdates
    /\ loadedRaw = NoEntry
    /\ calls = <<>>
    /\ last = NoLast
    /\ edits = 0
    /\ medium = "ok"
    /\ uncaught = Null
    /\ clipboard = 0
    /\ copied = FALSE

ValidationNext ==
    \/ \E v \in ValidationInputs : setSolution(v)
    \/ \E trigger \in {"click", "keydown"} : onAnalyze(trigger)
    \/ \E i \in 1..Len(calls), message \in NetworkMessages : NetworkError(i, message)

ValidationSpec == ValidationInit /\ [][ValidationNext]_vars

\* the client with the scheduling of the host: time passes and a due timer fires
FairClientSpec ==
    /\ ClientSpec
    /\ WF_vars(Tick)
    /\ WF_vars(\E i \in 1..Len(calls) : TimerFire(i))

(***************************************************************************)
(* Properties                                                              *)
(***************************************************************************)
InFlightCount == Len(SelectSeq(calls, InFlight))

HasKey(o, key) == \E i \in 1..Len(o.pairs) : o.pairs[i][1] = key

\* the length of s without its leading and trailing white space, by position
TrimmedLen(s) ==
    LET inked == {i \in 1..Len(s) : s[i] \notin {" ", "\n", "\t"}}
    IN  IF inked = {} THEN 0
        ELSE (CHOOSE i \in inked : \A j \in inked : j <= i)
             - (CHOOSE i \in inked : \A j \in inked : i <= j) + 1

\* the step starts an invocation of analyzeSolution
Started == Len(calls') > Len(calls)

\* C1: at most one exchange is in flight in every reachable state, and no step taken
\* while loading is true starts another invocation of analyzeSolution.
C1_SingleFlight ==
    /\ [](InFlightCount <= 1)
    /\ [][loading => ~Started]_vars

C1_Witness == InFlightCount = 1 /\ loading /\ edits > 0

\* C2: an exchange in flight is never older than 25 000 ms; an exchange the timer ends
\* fails with "Request timed out. Please try again.", which the page then shows; and
\* no exchange stays in flight forever.
C2_BoundedResponse ==
    /\ [](\A i \in 1..Len(calls) : InFlight(calls[i]) => calls[i].elapsed <= 25000)
    /\ [](last.by = "timer" =>
            /\ last.out = Throw(JStr("Request timed out. Please try again."))
            /\ error = JStr("Request timed out. Please try again.")
            /\ ~loading)
    /\ ((InFlightCount > 0) ~> (InFlightCount = 0))

C2_Witness == last.by = "timer" /\ last.res = NoResponse /\ calls = <<>>

\* C3: a timer is armed exactly while its exchange is in flight: every exchange in
\* flight has its timer armed, no timer is armed for an exchange that has concluded
\* (so none can fire after it), and with no exchange in flight no timer is armed.
C3_TimerDisarm ==
    /\ \A i \in 1..Len(calls) : calls[i].timer <=> InFlight(calls[i])
    /\ InFlightCount = 0 => calls = <<>>

C3_Witness ==
    /\ calls = <<>>
    /\ last.by = "response"
    /\ last.out.kind = "throw"
    /\ IncludesApplicationJson(last.res.contentType)
    /\ ParseThrows(last.body)

\* a non-2xx response whose body was parsed as JSON into an object
StructuredFailure ==
    /\ last.by = "response"
    /\ ~Ok(last.res.status)
    /\ IncludesApplicationJson(last.res.contentType)
    /\ ~ParseThrows(last.body)
    /\ JSONparse(last.body).t = "object"

\* C4 as stated: the message is the `message` field if present, else the `error` field
\* if present, else "Request failed", whatever the type of the field.
C4_AsStated ==
    StructuredFailure =>
        LET data == JSONparse(last.body)
        IN  last.out.message =
                IF HasKey(data, "message") THEN Get(data, "message")
                ELSE IF HasKey(data, "error") THEN Get(data, "error")
                ELSE JStr("Request failed")

\* C4 (amended): for a non-2xx response whose body parses to a JSON object the failure
\* message is the `message` field if it is a string (the empty string included), else
\* the `error` field if it is a string, else the literal "Request failed".
C4_MessagePrecedence ==
    StructuredFailure =>
        LET data == JSONparse(last.body)
            expected ==
                IF HasKey(data, "message") /\ Get(data, "message").t = "string"
                THEN Get(data, "message")
                ELSE IF HasKey(data, "error") /\ Get(data, "error").t = "string"
                THEN Get(data, "error")
                ELSE JStr("Request failed")
        IN  /\ last.out = Throw(expected)
            /\ error = expected

C4_Witness ==
    /\ StructuredFailure
    /\ JSONparse(last.body) = JObj(<< <<"message", JNum(42)>>, <<"error", JStr("bad input")>> >>)
    /\ error = JStr("bad input")

\* C5: a non-2xx response with a plain-text body fails with exactly that text, the
\* empty text included.
C5_PlainTextVerbatim ==
    (/\ last.by = "response"
     /\ ~Ok(last.res.status)
     /\ ~IncludesApplicationJson(last.res.contentType)
     /\ last.body.text = "raw")
    => /\ last.out = Throw(JStr(last.body.raw))
       /\ error = JStr(last.body.raw)

C5_Witness ==
    /\ last.by = "response"
    /\ ~Ok(last.res.status)
    /\ last.res.contentType = Null
    /\ last.body = RawText("")
    /\ error = JStr("")

\* C6: a 2xx JSON response is returned as parsed, and the page's result is that value,
\* every field and the order of every sequence included.
C6_SuccessPassThrough ==
    (/\ last.by = "response"
     /\ Ok(last.res.status)
     /\ IncludesApplicationJson(last.res.contentType)
     /\ last.body.text = "json")
    => /\ last.out = Return(last.body.value)
       /\ result = last.body.value
       /\ ~loading

C6_Witness ==
    /\ last.by = "response"
    /\ result = AnalyzeResult("b", "a")
    /\ Get(result, "summary") = JArr(<<JStr("b"), JStr("a")>>)

\* an optional field of the draft as it must appear in the request body
OptionalOnWire(req, key, draftValue) ==
    IF draftValue = ""
    THEN ~HasKey(req, key)
    ELSE HasKey(req, key) /\ Get(req, key) = JStr(draftValue)

\* C7: in the body of the request a step sends, `problem` and `constraints` are absent
\* as keys when the draft's value is the empty string, and carry the draft's value
\* unchanged otherwise; no key of the body holds null, undefined or an absent value.
C7_OptionalFieldsOmitted ==
    [][Started =>
        LET req == calls'[Len(calls')].request.value
        IN  /\ OptionalOnWire(req, "problem", problem)
            /\ OptionalOnWire(req, "constraints", constraints)
            /\ \A i \in 1..Len(req.pairs) : req.pairs[i][2] \notin {Null, Undefined}]_vars

C7_Witness ==
    \E i \in 1..Len(calls) :
        /\ InFlight(calls[i])
        /\ ~HasKey(calls[i].request.value, "problem")
        /\ Get(calls[i].request.value, "constraints") = JStr("n up to 1e5, exactly one solution")

\* C8: canAnalyze is false when the trimmed solution is shorter than 20, true when it
\* has at least 20 characters and no exchange is in flight, and false whenever an
\* exchange is in flight.
C8_ValidationGate ==
    /\ TrimmedLen(solution) < 20 => ~canAnalyze
    /\ (TrimmedLen(solution) >= 20 /\ InFlightCount = 0) => canAnalyze
    /\ InFlightCount > 0 => ~canAnalyze

C8_Witness ==
    /\ Len(solution) >= 20
    /\ TrimmedLen(solution) = 19
    /\ ~canAnalyze
    /\ InFlightCount = 0
    /\ phase = "ready"

\* C9: every step that starts an invocation of analyzeSolution is taken from a state
\* in which canAnalyze holds and the trimmed solution has at least 20 characters, and
\* the solution it sends is that one.
C9_NoCallWhenBlocked ==
    [][Started =>
        /\ canAnalyze
        /\ TrimmedLen(solution) >= 20
        /\ Get(calls'[Len(calls')].request.value, "solution") = JChars(solution)]_vars

C9_Witness ==
    \E i \in 1..Len(calls) :
        /\ InFlight(calls[i])
        /\ TrimmedLen(Get(calls[i].request.value, "solution").chars) = 20

\* the text is a draft as the save effect writes it
WellFormedDraft(text) ==
    /\ text.text = "json"
    /\ text.value.t = "object"
    /\ [i \in 1..Len(text.value.pairs) |-> text.value.pairs[i][1]]
         = <<"language", "mode", "problem", "constraints", "solution">>
    /\ \A i \in 1..Len(text.value.pairs) : text.value.pairs[i][2].t = "string"
    /\ Get(text.value, "language").v \in {"java", "python", "cpp", "javascript"}
    /\ Get(text.value, "mode").v \in {"interview", "simple", "deep"}

\* the mount sequence has applied what the load effect read, and the user has not acted
Loaded == phase \in {"resave", "ready"} /\ loadedRaw /= NoEntry

\* C10: when the load effect read a well-formed draft, the in-memory draft after the
\* mount equals it in all five fields.
C10_RoundTrip ==
    (Loaded /\ WellFormedDraft(loadedRaw)) =>
        /\ Get(loadedRaw.value, "language") = JStr(language)
        /\ Get(loadedRaw.value, "mode") = JStr(mode)
        /\ Get(loadedRaw.value, "problem") = JStr(problem)
        /\ Get(loadedRaw.value, "constraints") = JStr(constraints)
        /\ Get(loadedRaw.value, "solution") = JChars(solution)

C10_Witness ==
    /\ Loaded
    /\ phase = "ready"
    /\ WellFormedDraft(loadedRaw)
    /\ language = "python"
    /\ mode = "deep"
    /\ problem = ""
    /\ constraints /= ""
    /\ TrimmedLen(solution) = 19

\* the in-memory draft is the hard-coded default
DraftIsDefault ==
    /\ language = "java"
    /\ mode = "interview"
    /\ problem = ""
    /\ constraints = ""
    /\ solution = <<>>

\* a persisted entry that JSON.parse rejects
Corrupted(text) == text.text = "raw"

\* a persisted entry that parses, but not to a draft: not an object, or an object whose
\* mode is outside the enumeration
SchemaInvalid(text) ==
    /\ text.text = "json"
    /\ \/ text.value.t /= "object"
       \/ /\ HasKey(text.value, "mode")
          /\ Get(text.value, "mode") \notin {JStr("interview"), JStr("simple"), JStr("deep")}

\* C11: when the load effect read a corrupted or schema-invalid entry, then once the
\* mount has finished the in-memory draft is the default draft and the storage entry
\* is absent.
C11_CorruptDiscarded ==
    (phase = "ready" /\ (Corrupted(loadedRaw) \/ SchemaInvalid(loadedRaw))) =>
        /\ DraftIsDefault
        /\ storage = NoEntry

\* C12: every clearAll step, from any draft and with or without an exchange in flight,
\* ends (its render and effects included) with the default draft in memory and the
\* storage entry absent.
C12_ClearRemoves ==
    [][clearAll => (DraftIsDefault' /\ storage' = NoEntry)]_vars

\* a step that edits the draft: one of the five controls, or Load example
FieldEdit ==
    \/ \E v \in Languages : setLanguage(v)
    \/ \E v \in Modes : setMode(v)
    \/ \E v \in ProblemInputs : setProblem(v)
    \/ \E v \in ConstraintInputs : setConstraints(v)
    \/ \E v \in SolutionInputs : setSolution(v)
    \/ fillExample

\* the serialization of the current draft, all five fields in the order of the source
SavedDraft ==
    [text |-> "json",
     value |-> [t |-> "object",
                pairs |-> << <<"language", [t |-> "string", v |-> language]>>,
                             <<"mode", [t |-> "string", v |-> mode]>>,
                             <<"problem", [t |-> "string", v |-> problem]>>,
                             <<"constraints", [t |-> "string", v |-> constraints]>>,
                             <<"solution", [t |-> "string", chars |-> solution]>> >>]]

\* C13: every step that edits the draft ends, its effects included, with the entry
\* holding the whole draft as it is after the edit; and on the mounted page an entry
\* that is present is never anything but the whole current draft.
C13_SaveAfterEdit ==
    /\ [][FieldEdit => storage' = SavedDraft']_vars
    /\ []((phase = "ready" /\ storage /= NoEntry) => storage = SavedDraft)

C13_Witness ==
    /\ phase = "ready"
    /\ language = "python"
    /\ mode = "deep"
    /\ problem = "Two Sum"
    /\ constraints = ""
    /\ TrimmedLen(solution) = 19
    /\ storage = SavedDraft
    /\ calls /= <<>>

\* C14: no exception leaves the component, whatever the storage medium does; the page
\* stays mounted with its draft, and no error is shown for a storage failure.
C14_PersistenceSwallowed ==
    /\ uncaught = Null
    /\ phase /= "crashed"
    /\ error \notin {JStr("QuotaExceededError"), JStr("SecurityError")}

\* the POST requests the unfinished invocations have issued, in total
RECURSIVE Posts(_)
Posts(cs) == IF cs = <<>> THEN 0 ELSE Head(cs).posts + Posts(Tail(cs))

\* the step is a submission by the user
Submits == \E trigger \in {"click", "keydown"} : onAnalyze(trigger)

\* C15: every invocation of analyzeSolution has issued exactly one POST, when it is in
\* flight and when it has concluded; a submission by the user adds one invocation and
\* one POST; and no other step (a failure by timeout, transport error or non-2xx
\* status included) starts an invocation or issues a POST.
C15_OneCallNoRetry ==
    /\ [](\A i \in 1..Len(calls) : calls[i].posts = 1)
    /\ [](last.by /= "none" => last.posts = 1)
    /\ [][Submits => (Len(calls') = Len(calls) + 1 /\ Posts(calls') = Posts(calls) + 1)]_vars
    /\ [][~Submits => (~Started /\ Posts(calls') <= Posts(calls))]_vars

C15_Witness ==
    /\ last.by = "network"
    /\ last.out = Throw(JStr("Failed to fetch"))
    /\ last.posts = 1
    /\ calls = <<>>
    /\ ~loading

\* C16: when the timer of an exchange in flight fires, before or after the response
\* headers have arrived and whatever their status, the exchange ends with the failure
\* "Request timed out. Please try again.": the page shows that message, has no result
\* and is no longer loading.
C16_TimeoutWins ==
    /\ [][\A i \in 1..Len(calls) :
            (TimerFire(i) /\ InFlight(calls[i])) =>
                /\ last'.by = "timer"
                /\ last'.res = calls[i].res
                /\ last'.out = Throw(JStr("Request timed out. Please try again."))]_vars
    /\ [](last.by = "timer" =>
            /\ error = JStr("Request timed out. Please try again.")
            /\ result = Null
            /\ ~loading)

C16_Witness ==
    /\ last.by = "timer"
    /\ Ok(last.res.status)
    /\ IncludesApplicationJson(last.res.contentType)
    /\ error = JStr("Request timed out. Please try again.")
    /\ result = Null

\* C18: when fetch or the reading of the body rejects with an error that is not the
\* abort, analyzeSolution fails with that error's message and the page then holds it
\* as the error, with no result and loading false; likewise when the body of a
\* response declared as JSON does not parse.
C18_TransportFailure ==
    /\ [][\A i \in 1..Len(calls), message \in NetworkMessages :
            NetworkError(i, message) =>
                /\ last'.out = Throw([t |-> "string", v |-> message])
                /\ error' = [t |-> "string", v |-> message]
                /\ result' = Null
                /\ ~loading']_vars
    /\ []((/\ last.by = "response"
           /\ Ok(last.res.status)
           /\ IncludesApplicationJson(last.res.contentType)
           /\ last.body.text = "raw")
          => /\ last.out = Throw(JStr("Unexpected token in JSON"))
             /\ error = JStr("Unexpected token in JSON")
             /\ result = Null
             /\ ~loading)

C18_Witness ==
    /\ last.by = "network"
    /\ last.res.status = 200
    /\ error = JStr("Load failed")
    /\ result = Null
    /\ ~loading

\* the step ends an exchange by its timer
TimedOut == last'.by = "timer" /\ InFlightCount' < InFlightCount

\* C19: every invocation of analyzeSolution, the first and every one after it, starts
\* with a timer of its own that is armed and has run for 0 ms; an exchange is ended by
\* a timer only when its own timer has run for 25 000 ms; and a timer that fires leaves
\* every other invocation as it is.
C19_FreshTimer ==
    /\ [][Started =>
            LET call == calls'[Len(calls')]
            IN  call.timer /\ call.elapsed = 0 /\ call.pc = "fetching"]_vars
    /\ [][TimedOut =>
            \E i \in 1..Len(calls) :
                /\ InFlight(calls[i])
                /\ calls[i].timer
                /\ calls[i].elapsed >= 25000]_vars
    /\ [][\A i \in 1..Len(calls) :
            TimerFire(i) =>
                calls' = SelectSeq([j \in 1..Len(calls) |->
                                      IF j = i THEN [pc |-> "gone"] ELSE calls[j]],
                                   LAMBDA call : call.pc /= "gone")]_vars

\* an exchange in flight on a page whose "Copied" label is still up: a result was on
\* screen before, so the exchange is a resubmission
C19_Witness ==
    /\ copied
    /\ InFlightCount = 1
    /\ calls[1].timer
    /\ calls[1].elapsed = 0

\* the number a sequence of decimal digits denotes
RECURSIVE FromDecimal(_)
FromDecimal(ds) ==
    IF ds = <<>> THEN 0
    ELSE 10 * FromDecimal(SubSeq(ds, 1, Len(ds) - 1))
         + (CHOOSE d \in 0..9 : <<"0", "1", "2", "3", "4", "5", "6", "7", "8", "9">>[d + 1] = ds[Len(ds)])

\* the message for a solution that is blank, or too short by the number it states
MessageBelowThreshold ==
    LET n == TrimmedLen(solution)
    IN  /\ n = 0 => validationMessage = JStr("Paste your solution to start analysis.")
        /\ (0 < n /\ n < 20) =>
               /\ validationMessage.t = "string"
               /\ validationMessage.parts[1] = "Add at least "
               /\ FromDecimal(validationMessage.parts[2]) = 20 - n
               /\ validationMessage.parts[3] = " more characters for meaningful feedback."
        /\ n < 20 => Truthy(validationMessage)

\* C20 as stated: below the threshold the message asks for a solution or states 20 - n;
\* at or above it canAnalyze is true and there is no message; the message is there
\* from the first state on.
C20_AsStated ==
    /\ MessageBelowThreshold
    /\ TrimmedLen(solution) >= 20 => (canAnalyze /\ validationMessage = Null)

\* C20 (amended): for every solution string the message asks for a solution when the
\* trimmed length n is 0 and states exactly 20 - n when 0 < n < 20, from the first
\* state on and whether or not an exchange was attempted; when n >= 20 there is no
\* message, and canAnalyze is true exactly when no exchange is in flight.
C20_ValidationMessage ==
    /\ MessageBelowThreshold
    /\ TrimmedLen(solution) >= 20 =>
           /\ validationMessage = Null
           /\ canAnalyze <=> InFlightCount = 0

C20_Witness ==
    /\ TrimmedLen(solution) = 7
    /\ Len(solution) > 7
    /\ validationMessage.parts[2] = <<"1", "3">>
    /\ last.by = "network"

\* the content type declares JSON: application/json or a type with the +json suffix,
\* in any letter case, with or without parameters
DeclaredJson(contentType) ==
    contentType \in {JStr("application/json"), JStr("application/json; charset=utf-8"),
                     JStr("Application/JSON"), JStr("application/problem+json")}

\* C21: the body of every response declared as JSON is parsed (and a body that does not
\* parse fails the exchange), and the body of every other response is taken as text,
\* unparsed; the outcome of the exchange is computed from that value.
C21_ContentTypeDispatch ==
    last.by = "response" =>
        IF DeclaredJson(last.res.contentType)
        THEN IF last.body.text = "json"
             THEN last.out = IF Ok(last.res.status)
                             THEN Return(last.body.value)
                             ELSE Throw(getErrorMessage(last.body.value))
             ELSE last.out.kind = "throw"
        ELSE last.out = IF Ok(last.res.status)
                        THEN Return(TextString(last.body))
                        ELSE Throw(getErrorMessage(TextString(last.body)))

\* C22: the request a submission sends carries language, mode and solution as they are
\* in the draft at that moment, the solution character for character, and no later step
\* (an edit, fillExample, clearAll, a tick) changes the request of an exchange in flight.
C22_RequestSnapshot ==
    /\ [][Started =>
            LET req == calls'[Len(calls')].request.value
            IN  /\ Get(req, "language") = JStr(language)
                /\ Get(req, "mode") = JStr(mode)
                /\ Get(req, "solution") = JChars(solution)]_vars
    /\ [][\A i \in 1..Len(calls) :
            (i <= Len(calls') /\ InFlight(calls[i]) /\ InFlight(calls'[i]))
                => calls'[i].request = calls[i].request]_vars

\* an exchange in flight whose request holds the untrimmed solution of a draft that
\* has been cleared since
C22_Witness ==
    \E i \in 1..Len(calls) :
        /\ InFlight(calls[i])
        /\ edits > 0
        /\ solution = <<>>
        /\ Get(calls[i].request.value, "solution")
              = JChars(Rep(" ", PadChars) \o Rep("x", MIN_SOLUTION_LENGTH) \o Rep("\n", PadChars))
        /\ ~HasKey(calls[i].request.value, "problem")

\* C23: a submission sets loading, every exchange concludes (with a response, a transport
\* failure or, at the latest, the timer), the step that concludes it resets loading
\* whatever the outcome, and the draft can then be submitted again.
C23_IdleInFlightIdle ==
    /\ [][Started => loading']_vars
    /\ (loading ~> ~loading)
    /\ [][InFlightCount' < InFlightCount =>
            /\ last'.by \in {"response", "network", "timer"}
            /\ ~loading'
            /\ canAnalyze']_vars

\* the timer has ended an exchange whose response had begun to arrive, and the page
\* accepts a submission again
C23_Witness ==
    /\ last.by = "timer"
    /\ last.res.status = 200
    /\ ~loading
    /\ canAnalyze
    /\ InFlightCount = 0

\* what `{error && <p>{error}</p>}` puts on the page
ErrorShown == IF Truthy(error) THEN error ELSE Null

\* C24: after an exchange has concluded with a failure the page displays an error
\* message that is not empty, whatever the body of the response or the value thrown.
C24_EveryFailureShown ==
    (last.by /= "none" /\ last.out.kind = "throw") =>
        /\ ErrorShown /= Null
        /\ ErrorShown = last.out.message

\* type AnalyzeMode
AnalyzeMode == {"interview", "simple", "deep"}

\* the options of the language select
LanguageOptions == {"java", "python", "cpp", "javascript"}

\* C25: in every state the draft's mode is one of interview, simple and deep, its
\* language is one of the options of the page, and problem, constraints and solution
\* are strings; the same holds for the request of every exchange.
C25_DraftInDomain ==
    /\ mode \in AnalyzeMode
    /\ language \in LanguageOptions
    /\ problem \in STRING
    /\ constraints \in STRING
    /\ \A k \in 1..Len(solution) : solution[k] \in STRING
    /\ \A i \in 1..Len(calls) :
          LET req == calls[i].request.value
          IN  /\ Get(req, "mode") \in {JStr(m) : m \in AnalyzeMode}
              /\ Get(req, "language") \in {JStr(l) : l \in LanguageOptions}
              /\ Get(req, "solution").t = "string"

\* a step of the mounted page that changes exactly one field of the draft
OneFieldChanged ==
    /\ phase = "ready"
    /\ phase' = "ready"
    /\ Cardinality({f \in 1..5 : draftVars'[f] /= draftVars[f]}) = 1

\* a step that starts an exchange or receives its outcome
Concluded == last' /= last /\ last'.by /= "none"

\* C26: a step that edits one field of the draft (and is not Load example or Clear)
\* leaves loading, result and error as they are; a step that starts an exchange or
\* receives its outcome leaves the draft and the storage entry as they are.
C26_Independence ==
    /\ [][(OneFieldChanged /\ ~fillExample /\ ~clearAll) => UNCHANGED pageVars]_vars
    /\ [][(Started \/ Concluded) => UNCHANGED <<draftVars, storage>>]_vars

\* the error of a failed exchange is still held after the solution was emptied by an edit
C26_Witness ==
    /\ last.by /= "none"
    /\ last.out.kind = "throw"
    /\ error = last.out.message
    /\ Truthy(error)
    /\ solution = <<>>
    /\ storage = SavedDraft

\* C27: from the load effect until the first user action, whenever the entry the load
\* effect read was a well-formed draft, the storage entry is that draft.
C27_StartupKeepsDraft ==
    (phase \in {"save", "rerender", "resave", "ready"} /\ WellFormedDraft(loadedRaw)) =>
        storage = loadedRaw

\* an exchange is in flight and the form has been cleared since it was submitted: one
\* form event has happened since, the request (the draft at submission) holds a problem
\* and a solution, and the draft is the default; no setter changes two fields at once
ClearedInFlight ==
    /\ edits = 1
    /\ DraftIsDefault
    /\ \E i \in 1..Len(calls) :
          InFlight(calls[i]) /\ HasKey(calls[i].request.value, "problem")

\* C28: clearAll leaves no result and no error, and the outcome of an exchange that was in
\* flight when the form was cleared does not bring a result or an error onto the page.
C28_ClearNotUndone ==
    /\ [][clearAll => (result' = Null /\ error' = Null)]_vars
    /\ [][(ClearedInFlight /\ Concluded) => (result' = Null /\ ErrorShown' = Null)]_vars

\* C29: in every state at most one of result and error is set, and when an exchange has
\* concluded (and nothing has been submitted or reset since) exactly one of them is:
\* the result after a success, the error after a failure.
C29_ResultXorError ==
    /\ [](~(result /= Null /\ error /= Null))
    /\ [][Concluded =>
            IF last'.out.kind = "return"
            THEN result' = last'.out.value /\ error' = Null
            ELSE error' = last'.out.message /\ result' = Null]_vars

C17_NoErrorInFlight ==
    InFlightCount > 0 => error = Null

====
